---- MODULE Spec2Model ----
(***************************************************************************)
(* Facet filter evaluator of src/search/facet/mod.rs: the expression       *)
(* builder (from_str), the hierarchical range resolver                     *)
(* (evaluate_number_operator / explore_facet_levels) and the combinators   *)
(* (evaluate).                                                             *)
(***************************************************************************)
EXTENDS Integers, Sequences, FiniteSets, TLC

VARIABLES db, sdb, documents_ids, fields_ids_map, faceted_fields, call, ret

vars == <<db, sdb, documents_ids, fields_ids_map, faceted_fields, call, ret>>

(***************************************************************************)
(* Bounds of the model.                                                    *)
(***************************************************************************)
\* T::max_value() of the comparand type; T::min_value() is its opposite.
T_max_value == 2
\* number of documents of the index
NDocs == 3
\* highest facet level of a field
MaxLevel == 2
\* cap on the nesting of explore_facet_levels calls followed by the model
MaxDepth == 5

T_min_value == 0 - T_max_value
T == T_min_value..T_max_value
Docs == 1..NDocs
NoValue == T_max_value + 1

\* u8::MAX, the level of the probe key of evaluate_number_operator
U8_MAX == 255

\* the numeric field whose hierarchy varies, and a numeric field with no entry
NumField == 1
EmptyField == 2

(***************************************************************************)
(* std::ops::Bound                                                         *)
(***************************************************************************)
Included(v) == [kind |-> "Included", val |-> v]
Excluded(v) == [kind |-> "Excluded", val |-> v]
Unbounded == [kind |-> "Unbounded", val |-> 0]

(***************************************************************************)
(* FacetNumberOperator<T>                                                  *)
(***************************************************************************)
GreaterThan(v) == [op |-> "GreaterThan", a |-> v, b |-> v]
GreaterThanOrEqual(v) == [op |-> "GreaterThanOrEqual", a |-> v, b |-> v]
LowerThan(v) == [op |-> "LowerThan", a |-> v, b |-> v]
LowerThanOrEqual(v) == [op |-> "LowerThanOrEqual", a |-> v, b |-> v]
Equal(v) == [op |-> "Equal", a |-> v, b |-> v]
Between(l, r) == [op |-> "Between", a |-> l, b |-> r]

FacetNumberOperator ==
    {GreaterThan(v) : v \in T} \cup {GreaterThanOrEqual(v) : v \in T}
    \cup {LowerThan(v) : v \in T} \cup {LowerThanOrEqual(v) : v \in T}
    \cup {Equal(v) : v \in T} \cup {Between(l, r) : l \in T, r \in T}

(***************************************************************************)
(* The facet store: an ordered key-value store whose numeric keys are the  *)
(* tuples (field_id, level, low, high) and whose values are bitmaps.       *)
(* An entry is a record [fid, level, low, high, docids].                   *)
(***************************************************************************)
KeyOf(e) == <<e.fid, e.level, e.low, e.high>>

\* byte order of the encoded keys: lexicographic on the tuple
KeyLess(a, b) ==
    \/ a[1] < b[1]
    \/ a[1] = b[1] /\ a[2] < b[2]
    \/ a[1] = b[1] /\ a[2] = b[2] /\ a[3] < b[3]
    \/ a[1] = b[1] /\ a[2] = b[2] /\ a[3] = b[3] /\ a[4] < b[4]

KeyLeq(a, b) == a = b \/ KeyLess(a, b)

\* heed range(): the entries whose key lies between the two key bounds
InLower(k, bound) ==
    CASE bound.kind = "Included" -> KeyLeq(bound.val, k)
      [] bound.kind = "Excluded" -> KeyLess(bound.val, k)
      [] OTHER -> TRUE

InUpper(k, bound) ==
    CASE bound.kind = "Included" -> KeyLeq(k, bound.val)
      [] bound.kind = "Excluded" -> KeyLess(k, bound.val)
      [] OTHER -> TRUE

Range(store, lower, upper) ==
    {e \in store : InLower(KeyOf(e), lower) /\ InUpper(KeyOf(e), upper)}

\* heed get_lower_than_or_equal_to(): the entry with the largest key <= key
GetLowerThanOrEqualTo(store, key) ==
    {e \in store : /\ KeyLeq(KeyOf(e), key)
                   /\ \A e2 \in store : KeyLeq(KeyOf(e2), key) => KeyLeq(KeyOf(e2), KeyOf(e))}

(***************************************************************************)
(* The indexer: level 0 holds one point entry per indexed value, each      *)
(* higher level groups contiguous entries of the level below.              *)
(***************************************************************************)
DocidsOf(vals, low, high) == {d \in Docs : vals[d] # NoValue /\ low <= vals[d] /\ vals[d] <= high}

Level0(vals) ==
    {[fid |-> NumField, level |-> 0, low |-> v, high |-> v, docids |-> DocidsOf(vals, v, v)] :
        v \in {vals[d] : d \in Docs} \ {NoValue}}

Rank(prev, e) == Cardinality({e2 \in prev : e2.low <= e.low})

\* the groups of the entries of prev delimited by the cut positions
BuildLevel(vals, prev, level, cuts) ==
    LET n == Cardinality(prev)
        starts == {1} \cup {c + 1 : c \in {c \in cuts : c < n}}
        EndOf(s) == CHOOSE x \in ({c \in cuts : c >= s /\ c < n} \cup {n}) :
                        \A y \in ({c \in cuts : c >= s /\ c < n} \cup {n}) : x <= y
        At(i) == CHOOSE e \in prev : Rank(prev, e) = i
    IN IF n = 0 THEN {}
       ELSE {[fid |-> NumField, level |-> level, low |-> At(s).low, high |-> At(EndOf(s)).high,
              docids |-> DocidsOf(vals, At(s).low, At(EndOf(s)).high)] : s \in starts}

RECURSIVE BuildLevels(_, _, _, _, _)
BuildLevels(vals, prev, level, top, cuts) ==
    IF level > top THEN {}
    ELSE LET cur == BuildLevel(vals, prev, level, cuts[level])
         IN cur \cup BuildLevels(vals, cur, level + 1, top, cuts)

FacetIndex(vals, top, cuts) == Level0(vals) \cup BuildLevels(vals, Level0(vals), 1, top, cuts)

(***************************************************************************)
(* The range resolver.  The state threaded through the descent is the      *)
(* output bitmap together with a record of what the descent did.           *)
(***************************************************************************)
NewTrace ==
    [output |-> {}, unioned |-> {}, scans |-> <<>>, calls |-> {},
     depth |-> 0, max_depth |-> 0, overflow |-> FALSE]

\* IsExactValue without the restart: an exact value is resolved like any range
IsExactValue_never(level, left, right) == FALSE

\* the early exits of explore_facet_levels
IsExactValue(level, left, right) ==
    left.kind = "Included" /\ right.kind = "Included" /\ left.val = right.val /\ level > 0

IsEmptyRange(left, right) ==
    \/ left.kind = "Included" /\ right.kind = "Included" /\ left.val > right.val
    \/ left.kind = "Included" /\ right.kind = "Excluded" /\ left.val >= right.val
    \/ left.kind = "Excluded" /\ right.kind = "Excluded" /\ left.val >= right.val
    \/ left.kind = "Excluded" /\ right.kind = "Included" /\ left.val >= right.val

\* the lower bound of the range iterator
LeftBound(field_id, level, left) ==
    CASE left.kind = "Included" -> [kind |-> "Included", val |-> <<field_id, level, left.val, T_min_value>>]
      [] left.kind = "Excluded" -> [kind |-> "Excluded", val |-> <<field_id, level, left.val, T_min_value>>]
      [] OTHER -> [kind |-> "Unbounded", val |-> <<>>]

RightBound(field_id, level) ==
    [kind |-> "Included", val |-> <<field_id, level, T_max_value, T_max_value>>]

\* TakeWhilePred with the included right bound compared strictly
TakeWhilePred_strict(e, right) ==
    CASE right.kind = "Included" -> e.high < right.val
      [] right.kind = "Excluded" -> e.high < right.val
      [] OTHER -> TRUE

\* the predicate of take_while
TakeWhilePred(e, right) ==
    CASE right.kind = "Included" -> e.high <= right.val
      [] right.kind = "Excluded" -> e.high < right.val
      [] OTHER -> TRUE

\* the entries the iterator yields: the longest prefix of the range that passes take_while
Iter(store, field_id, level, left, right) ==
    LET range == Range(store, LeftBound(field_id, level, left), RightBound(field_id, level))
    IN {e \in range : \A e2 \in range : KeyLeq(KeyOf(e2), KeyOf(e)) => TakeWhilePred(e2, right)}

First(es) == CHOOSE e \in es : \A e2 \in es : KeyLeq(KeyOf(e), KeyOf(e2))
Last(es) == CHOOSE e \in es : \A e2 \in es : KeyLeq(KeyOf(e2), KeyOf(e))

\* the for loop: every yielded entry is unioned into the output
ScanLevel(st, store, field_id, level, left, right) ==
    LET es == Iter(store, field_id, level, left, right)
    IN [st EXCEPT !.output = @ \cup UNION {e.docids : e \in es},
                  !.unioned = @ \cup {[level |-> e.level, low |-> e.low, high |-> e.high,
                                       fid |-> e.fid, call_level |-> level,
                                       left |-> left, right |-> right] : e \in es},
                  !.scans = Append(@, [level |-> level, left |-> left, right |-> right,
                                       keys |-> {<<e.low, e.high>> : e \in es}])]

\* MustRefineRight with the right boundary never refined
MustRefineRight_never(right, right_found) == FALSE

\* "If the bound is satisfied we avoid calling this function again."
MustRefineLeft(left, left_found) == ~(left.kind = "Included" /\ left.val = left_found)
MustRefineRight(right, right_found) == ~(right.kind = "Included" /\ right.val = right_found)

\* ExactValueLevel with the restart made at the level of the caller
ExactValueLevel_same(level) == level

\* the level the exact-value request goes to
ExactValueLevel(level) == 0

\* DeeperLevel with the level not decremented
DeeperLevel_same(level) == level

\* level.checked_sub(1)
DeeperLevel(level) == level - 1

Enter(st) ==
    [st EXCEPT !.depth = @ + 1, !.max_depth = IF st.depth + 1 > @ THEN st.depth + 1 ELSE @]
Leave(st) == [st EXCEPT !.depth = @ - 1]
Called(st, from, to) == [st EXCEPT !.calls = @ \cup {<<from, to>>}]

RECURSIVE explore_facet_levels(_, _, _, _, _, _)
explore_facet_levels(store, field_id, level, left, right, st0) ==
    LET st == Enter(st0)
    IN IF st.depth > MaxDepth THEN Leave([st EXCEPT !.overflow = TRUE])
       ELSE IF IsExactValue(level, left, right)
       THEN Leave(explore_facet_levels(store, field_id, ExactValueLevel(level), left, right,
                                       Called(st, level, ExactValueLevel(level))))
       ELSE IF IsEmptyRange(left, right) THEN Leave(st)
       ELSE
         LET es == Iter(store, field_id, level, left, right)
             st1 == ScanLevel(st, store, field_id, level, left, right)
             deeper_level == DeeperLevel(level)
         IN IF level = 0 THEN Leave(st1)
            ELSE IF es # {}
            THEN LET left_found == First(es).low
                     right_found == Last(es).high
                     st2 == IF MustRefineLeft(left, left_found)
                            THEN explore_facet_levels(store, field_id, deeper_level, left,
                                     Excluded(left_found), Called(st1, level, deeper_level))
                            ELSE st1
                     st3 == IF MustRefineRight(right, right_found)
                            THEN explore_facet_levels(store, field_id, deeper_level,
                                     Excluded(right_found), right, Called(st2, level, deeper_level))
                            ELSE st2
                 IN Leave(st3)
            ELSE Leave(explore_facet_levels(store, field_id, deeper_level, left, right,
                                            Called(st1, level, deeper_level)))

\* OperatorBounds with the bounds of Between put in order
OperatorBounds_sorted(operator) ==
    CASE operator.op = "GreaterThan" -> <<Excluded(operator.a), Included(T_max_value)>>
      [] operator.op = "GreaterThanOrEqual" -> <<Included(operator.a), Included(T_max_value)>>
      [] operator.op = "LowerThan" -> <<Included(T_min_value), Excluded(operator.a)>>
      [] operator.op = "LowerThanOrEqual" -> <<Included(T_min_value), Included(operator.a)>>
      [] operator.op = "Equal" -> <<Included(operator.a), Included(operator.a)>>
      [] operator.op = "Between" ->
            IF operator.a <= operator.b
            THEN <<Included(operator.a), Included(operator.b)>>
            ELSE <<Included(operator.b), Included(operator.a)>>

\* the interval of an operator
OperatorBounds(operator) ==
    CASE operator.op = "GreaterThan" -> <<Excluded(operator.a), Included(T_max_value)>>
      [] operator.op = "GreaterThanOrEqual" -> <<Included(operator.a), Included(T_max_value)>>
      [] operator.op = "LowerThan" -> <<Included(T_min_value), Excluded(operator.a)>>
      [] operator.op = "LowerThanOrEqual" -> <<Included(T_min_value), Included(operator.a)>>
      [] operator.op = "Equal" -> <<Included(operator.a), Included(operator.a)>>
      [] operator.op = "Between" -> <<Included(operator.a), Included(operator.b)>>

\* the biggest level of the field, or -1 when the field has no entry
BiggestLevel(store, field_id) ==
    LET found == GetLowerThanOrEqualTo(store, <<field_id, U8_MAX, T_max_value, T_max_value>>)
    IN IF found = {} THEN -1
       ELSE LET e == CHOOSE e \in found : TRUE
            IN IF e.fid = field_id THEN e.level ELSE -1

\* the trace of evaluate_number_operator; its output field is the returned bitmap
evaluate_number_operator(store, field_id, operator) ==
    LET bounds == OperatorBounds(operator)
        biggest_level == BiggestLevel(store, field_id)
    IN IF biggest_level >= 0
       THEN explore_facet_levels(store, field_id, biggest_level, bounds[1], bounds[2], NewTrace)
       ELSE NewTrace

(***************************************************************************)
(* FacetCondition and its evaluation.                                      *)
(***************************************************************************)
StrField == 3

OperatorI64(fid, operator) == [type |-> "OperatorI64", fid |-> fid, operator |-> operator]
OperatorF64(fid, operator) == [type |-> "OperatorF64", fid |-> fid, operator |-> operator]
OperatorString(fid, string) == [type |-> "OperatorString", fid |-> fid, string |-> string]
Or(lhs, rhs) == [type |-> "Or", lhs |-> lhs, rhs |-> rhs]
And(lhs, rhs) == [type |-> "And", lhs |-> lhs, rhs |-> rhs]
Not(op) == [type |-> "Not", op |-> op]

\* the string facet entries are records [fid, string, docids]
evaluate_string_operator(store, field_id, string) ==
    LET found == {e \in store : e.fid = field_id /\ e.string = string}
    IN IF found # {} THEN (CHOOSE e \in found : TRUE).docids ELSE {}

\* Sub restricted to the documents of the operand
Sub_swapped(all_documents_ids, docids) == docids \ all_documents_ids

\* lhs | rhs, lhs & rhs, all_documents_ids - documents_ids
BitOr(lhs, rhs) == lhs \cup rhs
BitAnd(lhs, rhs) == lhs \cap rhs
Sub(all_documents_ids, docids) == all_documents_ids \ docids

RECURSIVE evaluate(_, _, _, _)
evaluate(cond, store, sstore, all_documents_ids) ==
    CASE cond.type = "OperatorI64" -> evaluate_number_operator(store, cond.fid, cond.operator).output
      [] cond.type = "OperatorF64" -> evaluate_number_operator(store, cond.fid, cond.operator).output
      [] cond.type = "OperatorString" -> evaluate_string_operator(sstore, cond.fid, cond.string)
      [] cond.type = "Or" -> BitOr(evaluate(cond.lhs, store, sstore, all_documents_ids),
                                   evaluate(cond.rhs, store, sstore, all_documents_ids))
      [] cond.type = "And" -> BitAnd(evaluate(cond.lhs, store, sstore, all_documents_ids),
                                     evaluate(cond.rhs, store, sstore, all_documents_ids))
      [] cond.type = "Not" -> Sub(all_documents_ids,
                                  evaluate(cond.op, store, sstore, all_documents_ids))

(***************************************************************************)
(* The expression builder.  The input is the tree of pairs the grammar     *)
(* yields: comparison leaves [rule, key, values], the wrappers prgm, term  *)
(* and not [rule, inner], and the infix nodes or and and [rule, lhs, rhs]. *)
(* fields_ids_map maps a name to its id or NoId, faceted_fields maps an id *)
(* to its FacetType or NotFaceted.                                         *)
(***************************************************************************)
NoId == 0
NotFaceted == "NotFaceted"
FacetType == {"Integer", "Float", "String"}

Ok(cond) == [ok |-> TRUE, cond |-> cond]
Err(kind, item) == [ok |-> FALSE, kind |-> kind, item |-> item]

\* str::parse of a literal as a number
ParseNumber(text) ==
    CASE text = "2" -> [ok |-> TRUE, val |-> 2]
      [] text = "-1" -> [ok |-> TRUE, val |-> -1]
      [] OTHER -> [ok |-> FALSE, val |-> 0]

\* get_field_id_facet_type with a field that is not faceted taken as an Integer facet
get_field_id_facet_type_unchecked(fim, ff, item) ==
    LET field_id == fim[item.key]
    IN IF field_id = NoId THEN [ok |-> FALSE, err |-> Err("UnknownAttribute", item)]
       ELSE IF ff[field_id] = NotFaceted THEN [ok |-> TRUE, fid |-> field_id, ftype |-> "Integer"]
       ELSE [ok |-> TRUE, fid |-> field_id, ftype |-> ff[field_id]]

get_field_id_facet_type(fim, ff, item) ==
    LET field_id == fim[item.key]
    IN IF field_id = NoId THEN [ok |-> FALSE, err |-> Err("UnknownAttribute", item)]
       ELSE IF ff[field_id] = NotFaceted THEN [ok |-> FALSE, err |-> Err("NotFaceted", item)]
       ELSE [ok |-> TRUE, fid |-> field_id, ftype |-> ff[field_id]]

between(fim, ff, item) ==
    LET t == get_field_id_facet_type(fim, ff, item)
        lvalue == ParseNumber(item.values[1])
        rvalue == ParseNumber(item.values[2])
    IN IF ~t.ok THEN t.err
       ELSE IF t.ftype = "String" THEN Err("InvalidOperatorOnString", item)
       ELSE IF ~lvalue.ok \/ ~rvalue.ok THEN Err("InvalidLiteral", item)
       ELSE IF t.ftype = "Integer" THEN Ok(OperatorI64(t.fid, Between(lvalue.val, rvalue.val)))
       ELSE Ok(OperatorF64(t.fid, Between(lvalue.val, rvalue.val)))

equal(fim, ff, item) ==
    LET t == get_field_id_facet_type(fim, ff, item)
        value == ParseNumber(item.values[1])
    IN IF ~t.ok THEN t.err
       ELSE IF t.ftype = "String" THEN Ok(OperatorString(t.fid, item.values[1]))
       ELSE IF ~value.ok THEN Err("InvalidLiteral", item)
       ELSE IF t.ftype = "Integer" THEN Ok(OperatorI64(t.fid, Equal(value.val)))
       ELSE Ok(OperatorF64(t.fid, Equal(value.val)))

\* the shape shared by greater_than, greater_than_or_equal, lower_than and lower_than_or_equal
ordering(fim, ff, item, operator) ==
    LET t == get_field_id_facet_type(fim, ff, item)
        value == ParseNumber(item.values[1])
    IN IF ~t.ok THEN t.err
       ELSE IF t.ftype = "String" THEN Err("InvalidOperatorOnString", item)
       ELSE IF ~value.ok THEN Err("InvalidLiteral", item)
       ELSE IF t.ftype = "Integer" THEN Ok(OperatorI64(t.fid, [op |-> operator, a |-> value.val, b |-> value.val]))
       ELSE Ok(OperatorF64(t.fid, [op |-> operator, a |-> value.val, b |-> value.val]))

greater_than(fim, ff, item) == ordering(fim, ff, item, "GreaterThan")
greater_than_or_equal(fim, ff, item) == ordering(fim, ff, item, "GreaterThanOrEqual")
lower_than(fim, ff, item) == ordering(fim, ff, item, "LowerThan")
lower_than_or_equal(fim, ff, item) == ordering(fim, ff, item, "LowerThanOrEqual")

\* Ok(Not(Box::new(x?)))
NotOf(x) == IF x.ok THEN Ok(Not(x.cond)) ELSE x

\* the infix closure of the climber: lhs? is evaluated before rhs?
Infix(lhs, rule, rhs) ==
    IF ~lhs.ok THEN lhs
    ELSE IF ~rhs.ok THEN rhs
    ELSE IF rule = "or" THEN Ok(Or(lhs.cond, rhs.cond))
    ELSE Ok(And(lhs.cond, rhs.cond))

RECURSIVE from_pairs(_, _, _)
from_pairs(fim, ff, pair) ==
    CASE pair.rule = "between" -> between(fim, ff, pair)
      [] pair.rule = "eq" -> equal(fim, ff, pair)
      [] pair.rule = "neq" -> NotOf(equal(fim, ff, pair))
      [] pair.rule = "greater" -> greater_than(fim, ff, pair)
      [] pair.rule = "geq" -> greater_than_or_equal(fim, ff, pair)
      [] pair.rule = "less" -> lower_than(fim, ff, pair)
      [] pair.rule = "leq" -> lower_than_or_equal(fim, ff, pair)
      [] pair.rule = "prgm" -> from_pairs(fim, ff, pair.inner)
      [] pair.rule = "term" -> from_pairs(fim, ff, pair.inner)
      [] pair.rule = "not" -> NotOf(from_pairs(fim, ff, pair.inner))
      [] pair.rule \in {"or", "and"} ->
            Infix(from_pairs(fim, ff, pair.lhs), pair.rule, from_pairs(fim, ff, pair.rhs))

from_str(fim, ff, expression) == from_pairs(fim, ff, expression)

(***************************************************************************)
(* Specification of the range resolver: one numeric operator is resolved   *)
(* at a time against an index that does not change.                        *)
(***************************************************************************)
NoCall == [kind |-> "none"]
NoRet == [kind |-> "none"]

InitIndex ==
    /\ documents_ids = Docs
    /\ \E vals \in [Docs -> T \cup {NoValue}] :
       \E top \in 0..MaxLevel :
       \E cuts \in [1..MaxLevel -> SUBSET (1..(NDocs - 1))] :
          db = FacetIndex(vals, top, cuts)

Init ==
    /\ InitIndex
    /\ sdb = {}
    /\ fields_ids_map = <<>>
    /\ faceted_fields = <<>>
    /\ call = NoCall
    /\ ret = NoRet

\* the requests made to the resolver: every operator on the indexed field,
\* two operators on the field that has no entry
Requests ==
    {<<NumField, operator>> : operator \in FacetNumberOperator}
    \cup {<<EmptyField, operator>> : operator \in {GreaterThanOrEqual(T_min_value), Equal(T_max_value)}}

EvaluateNumberOperator ==
    \E field_id \in {NumField, EmptyField} : \E operator \in FacetNumberOperator :
        /\ call = NoCall
        /\ <<field_id, operator>> \in Requests
        /\ call' = [kind |-> "number", field_id |-> field_id, operator |-> operator]
        /\ ret' = [kind |-> "number", trace |-> evaluate_number_operator(db, field_id, operator)]
        /\ UNCHANGED <<db, sdb, documents_ids, fields_ids_map, faceted_fields>>

\* the caller takes the result; the next query starts from the same index
Return ==
    /\ call # NoCall
    /\ call' = NoCall
    /\ ret' = NoRet
    /\ UNCHANGED <<db, sdb, documents_ids, fields_ids_map, faceted_fields>>

Next == EvaluateNumberOperator \/ Return

Spec == Init /\ [][Next]_vars

(***************************************************************************)
(* Specification of the combinators: one expression tree is evaluated at a *)
(* time against an index with one integer facet and one string facet.      *)
(***************************************************************************)
\* the leaves of the evaluated trees
LeafConditions ==
    {OperatorI64(NumField, GreaterThan(0)), OperatorI64(NumField, LowerThanOrEqual(0)),
     OperatorString(StrField, "acme")}

Combine(conds) ==
    {Not(c) : c \in conds}
    \cup {Or(c[1], c[2]) : c \in conds \X conds}
    \cup {And(c[1], c[2]) : c \in conds \X conds}

\* the trees of depth at most two
FacetConditions ==
    LET level1 == LeafConditions \cup Combine(LeafConditions)
    IN level1 \cup Combine(level1)

\* the string facet when the documents 1..k are of brand "acme"
StringIndex(k) ==
    IF k = 0 THEN {} ELSE {[fid |-> StrField, string |-> "acme", docids |-> 1..k]}

InitEval ==
    /\ documents_ids = Docs
    /\ \E vals \in [Docs -> {0, 1, NoValue}] :
          db = FacetIndex(vals, 1, [l \in 1..MaxLevel |-> {}])
    /\ \E k \in {0, NDocs - 1} : sdb = StringIndex(k)
    /\ fields_ids_map = <<>>
    /\ faceted_fields = <<>>
    /\ call = NoCall
    /\ ret = NoRet

Evaluate ==
    \E cond \in FacetConditions :
        /\ call = NoCall
        /\ call' = [kind |-> "evaluate", cond |-> cond]
        /\ ret' = [kind |-> "evaluate", bitmap |-> evaluate(cond, db, sdb, documents_ids)]
        /\ UNCHANGED <<db, sdb, documents_ids, fields_ids_map, faceted_fields>>

NextEval == Evaluate \/ Return

SpecEval == InitEval /\ [][NextEval]_vars

(***************************************************************************)
(* Specification of the builder: one parsed expression is built at a time  *)
(* against a catalog of two attribute names.                               *)
(***************************************************************************)
Names == {"price", "brand"}
FieldIds == {NumField, StrField}
Literals == {"2", "acme"}
SingleRules == {"eq", "neq", "greater", "geq", "less", "leq"}
OrderingRules == {"greater", "geq", "less", "leq", "between"}

Leaf(rule, key, values) == [rule |-> rule, key |-> key, values |-> values]
Wrap(rule, inner) == [rule |-> rule, inner |-> inner]
Op(rule, lhs, rhs) == [rule |-> rule, lhs |-> lhs, rhs |-> rhs]

ParsedLeaves ==
    {Leaf(r, k, <<v>>) : r \in SingleRules, k \in Names, v \in Literals}
    \cup {Leaf("between", k, <<v[1], v[2]>>) : k \in Names, v \in Literals \X Literals}

\* the parsed expressions: a leaf, a negated or parenthesised leaf, or two leaves joined
ParsedExpressions ==
    {Wrap("prgm", l) : l \in ParsedLeaves}
    \cup {Wrap("prgm", Wrap("not", l)) : l \in ParsedLeaves}
    \cup {Wrap("prgm", Wrap("term", l)) : l \in ParsedLeaves}
    \cup {Wrap("prgm", Op(r, l[1], l[2])) : r \in {"or", "and"}, l \in ParsedLeaves \X ParsedLeaves}

InitBuild ==
    /\ documents_ids = Docs
    /\ db = {}
    /\ sdb = {}
    /\ fields_ids_map \in {f \in [Names -> FieldIds \cup {NoId}] :
                               \A n1, n2 \in Names : (f[n1] = f[n2] /\ f[n1] # NoId) => n1 = n2}
    /\ faceted_fields \in [FieldIds -> FacetType \cup {NotFaceted}]
    /\ call = NoCall
    /\ ret = NoRet

FromStr ==
    \E expression \in ParsedExpressions :
        /\ call = NoCall
        /\ call' = [kind |-> "from_str", expression |-> expression]
        /\ ret' = [kind |-> "from_str", result |-> from_str(fields_ids_map, faceted_fields, expression)]
        /\ UNCHANGED <<db, sdb, documents_ids, fields_ids_map, faceted_fields>>

NextBuild == FromStr \/ Return

SpecBuild == InitBuild /\ [][NextBuild]_vars

(***************************************************************************)
(* Properties of the range resolver.                                       *)
(***************************************************************************)
Resolved == call.kind = "number"

\* the highest level at which the field of the request has an entry, -1 when it has none
MaxL ==
    LET levels == {e.level : e \in {e \in db : e.fid = call.field_id}}
    IN IF levels = {} THEN -1 ELSE CHOOSE l \in levels : \A l2 \in levels : l2 <= l

\* what an operator means for one stored value
Satisfies(v, operator) ==
    CASE operator.op = "GreaterThan" -> v > operator.a
      [] operator.op = "GreaterThanOrEqual" -> v >= operator.a
      [] operator.op = "LowerThan" -> v < operator.a
      [] operator.op = "LowerThanOrEqual" -> v <= operator.a
      [] operator.op = "Equal" -> v = operator.a
      [] operator.op = "Between" -> operator.a <= v /\ v <= operator.b

\* the flat scan of level 0
FlatScan(store, field_id, operator) ==
    UNION {e.docids : e \in {e \in store : /\ e.fid = field_id /\ e.level = 0
                                           /\ Satisfies(e.low, operator)}}

\* C1: the bitmap returned by evaluate_number_operator is the union of the
\* level-0 bitmaps of the field whose value satisfies the operator, for each
\* of the six operators (strictly greater for GreaterThan).
C1_HierarchicalEqualsFlat ==
    Resolved => ret.trace.output = FlatScan(db, call.field_id, call.operator)

\* C1 without GreaterThan: the five other operators agree with the flat scan.
C1_OthersEqualFlat ==
    (Resolved /\ call.operator.op # "GreaterThan")
        => ret.trace.output = FlatScan(db, call.field_id, call.operator)

\* the bitmap stored at the level-0 key (f, 0, v, v), empty when the key is absent
Level0Bitmap(store, field_id, v) ==
    UNION {e.docids : e \in {e \in store : e.fid = field_id /\ e.level = 0
                                           /\ e.low = v /\ e.high = v}}

\* C2: Equal(v) returns exactly the bitmap of the level-0 key (f, 0, v, v), or
\* the empty bitmap when the key is absent, whatever the biggest level is, and
\* no entry of a level above 0 is unioned into the output.
C2_EqualIsLevel0Lookup ==
    (Resolved /\ call.operator.op = "Equal")
        => /\ ret.trace.output = Level0Bitmap(db, call.field_id, call.operator.a)
           /\ \A u \in ret.trace.unioned : u.level = 0

\* an Equal request on a field whose biggest level is above 0 found its value
C2_Witness ==
    /\ Resolved /\ call.operator.op = "Equal"
    /\ MaxL > 0
    /\ ret.trace.output # {}
    /\ \E e \in db : e.level > 0 /\ e.low = call.operator.a /\ e.high = call.operator.a

\* C3: Between(l, r) with l > r returns the empty bitmap.
C3_BetweenReversedIsEmpty ==
    (Resolved /\ call.operator.op = "Between" /\ call.operator.a > call.operator.b)
        => ret.trace.output = {}

\* a reversed Between was resolved on an index that holds values between r and l
C3_Witness ==
    /\ Resolved /\ call.operator.op = "Between" /\ call.operator.a > call.operator.b
    /\ call.field_id = NumField
    /\ \E e \in db : e.level = 0 /\ call.operator.b <= e.low /\ e.low <= call.operator.a
    /\ ret.trace.output = {}

\* the level-0 values of a field
Level0Values(store, field_id) == {e.low : e \in {e \in store : e.fid = field_id /\ e.level = 0}}

\* a value lies inside an interval, endpoint kinds respected
AboveLeft(v, left) ==
    CASE left.kind = "Included" -> v >= left.val
      [] left.kind = "Excluded" -> v > left.val
      [] OTHER -> TRUE

BelowRight(v, right) ==
    CASE right.kind = "Included" -> v <= right.val
      [] right.kind = "Excluded" -> v < right.val
      [] OTHER -> TRUE

\* the request spans every indexed value of its field, which has at least one
SpansAll ==
    /\ Resolved /\ MaxL >= 0
    /\ \A v \in Level0Values(db, call.field_id) : Satisfies(v, call.operator)

\* C6 as stated: a request that spans all indexed values makes at most
\* max_l + 2 level scans.
C6_SpanAllScansAtMostMaxLPlus2 ==
    SpansAll => Len(ret.trace.scans) <= MaxL + 2

\* the documents of the entries found by a scan
ScanDocids(sc) ==
    UNION {e.docids : e \in {e \in db : /\ e.fid = call.field_id /\ e.level = sc.level
                                          /\ <<e.low, e.high>> \in sc.keys}}

\* C6 amended: a request that spans all indexed values makes at most
\* 2 * max_l + 1 level scans: the first scan, which already unions every
\* document of the field, and the two boundary recursions, which scan each
\* lower level at most once and add no document.
C6_SpanAllScansAtMostTwiceMaxLPlus1 ==
    SpansAll => /\ Len(ret.trace.scans) <= 2 * MaxL + 1
                /\ ScanDocids(ret.trace.scans[1]) = ret.trace.output
                /\ ret.trace.output = FlatScan(db, call.field_id, call.operator)

\* a spanning request on a field of biggest level 2 made five scans
C6_Witness ==
    /\ SpansAll /\ MaxL = 2
    /\ Len(ret.trace.scans) = 5
    /\ ret.trace.output # {}

\* the request is closed on both sides and equals the range of the entry e
\* of the biggest level
MatchesSummary(e) ==
    /\ e.fid = call.field_id /\ e.level = MaxL
    /\ OperatorBounds(call.operator) = <<Included(e.low), Included(e.high)>>

\* C7 as stated: a closed request that equals the range of one entry of the
\* biggest level returns the bitmap of that entry and opens no scan below the
\* biggest level, also when the entry has low = high.
C7_ExactSummaryNoDeeperScan ==
    Resolved => \A e \in db : MatchesSummary(e) =>
        /\ ret.trace.output = e.docids
        /\ \A i \in DOMAIN ret.trace.scans : ret.trace.scans[i].level >= MaxL

\* C7 amended: such a request returns the bitmap of that entry; when the
\* entry has low < high or the biggest level is 0 the only scan is the one at
\* the biggest level; when low = high and the biggest level is above 0 the
\* only scan is the one at level 0.
C7_ExactSummaryOneScan ==
    Resolved => \A e \in db : MatchesSummary(e) =>
        /\ ret.trace.output = e.docids
        /\ Len(ret.trace.scans) = 1
        /\ ret.trace.scans[1].level = IF e.low = e.high THEN 0 ELSE MaxL

\* both cases happened: a range entry answered at the biggest level, or a
\* point entry of a level above 0 answered at level 0
C7_Witness ==
    Resolved /\ \E e \in db :
                  /\ MatchesSummary(e) /\ MaxL > 0
                  /\ ret.trace.output = e.docids /\ e.docids # {}
                  /\ \/ e.low < e.high /\ ret.trace.scans[1].level = MaxL
                     \/ e.low = e.high /\ ret.trace.scans[1].level = 0

\* C8: every entry unioned into the output lies inside the interval of the
\* call that unioned it: low >= l for Included(l), low > l for Excluded(l),
\* high <= r for Included(r), high < r for Excluded(r).
C8_UnionedKeysContained ==
    Resolved => \A u \in ret.trace.unioned :
                    AboveLeft(u.low, u.left) /\ BelowRight(u.high, u.right)

\* C9: the descent misses no document: every document of a level-0 entry
\* whose value satisfies the operator is in the output, and in every scan that
\* found keys the level-0 values of the interval that no found key covers lie
\* below the first low or above the last high.
C9_NoDocumentMissed ==
    Resolved =>
        /\ FlatScan(db, call.field_id, call.operator) \subseteq ret.trace.output
        /\ \A i \in DOMAIN ret.trace.scans :
             LET sc == ret.trace.scans[i]
             IN \A v \in Level0Values(db, call.field_id) :
                  (sc.keys # {} /\ AboveLeft(v, sc.left) /\ BelowRight(v, sc.right))
                     => \/ \E k \in sc.keys : k[1] <= v /\ v <= k[2]
                        \/ \A k \in sc.keys : v < k[1]
                        \/ \A k \in sc.keys : v > k[2]

\* a request answered by a key of the biggest level and, through a boundary
\* recursion, by a key of a lower level that lies beside it
C9_Witness ==
    /\ Resolved /\ MaxL > 0
    /\ \E u1, u2 \in ret.trace.unioned :
          /\ u1.call_level = MaxL /\ u2.call_level < MaxL
          /\ u2.high < u1.low \/ u2.low > u1.high
    /\ ret.trace.output = FlatScan(db, call.field_id, call.operator)

\* C10: every recursive call is made at a strictly lower level, the descent
\* ends, and the nesting of the calls is at most max_l + 1.
C10_DescentBounded ==
    (Resolved /\ MaxL >= 0) =>
        /\ \A c \in ret.trace.calls : 0 <= c[2] /\ c[2] < c[1]
        /\ ~ret.trace.overflow
        /\ ret.trace.max_depth <= MaxL + 1
        /\ ret.trace.depth = 0

\* a descent that went through every level of a field of biggest level 2,
\* and an exact-value restart from level 2 to level 0
C10_Witness ==
    /\ Resolved /\ MaxL = 2
    /\ \/ ret.trace.max_depth = MaxL + 1
       \/ <<2, 0>> \in ret.trace.calls

\* the unions of the request that brought the level-0 entry of value v into the output
UnionsCovering(v) == {u \in ret.trace.unioned : u.low <= v /\ v <= u.high}

\* C11: boundary refinement never double-counts: within one
\* evaluate_number_operator call no level-0 entry has its bitmap unioned into
\* the output through two different scanned keys.
C11_NoDoubleCount ==
    Resolved => \A v \in Level0Values(db, call.field_id) :
                    Cardinality(UnionsCovering(v)) <= 1

\* C11 for the requests whose left bound is included and whose right
\* recursion meets no key that starts at last_high: every union of a scan
\* keeps to values above an excluded left bound, and then no value is
\* covered twice.
C11_NoDoubleCountWhenExcludedHolds ==
    (Resolved /\ \A u \in ret.trace.unioned : AboveLeft(u.low, u.left))
        => \A v \in Level0Values(db, call.field_id) :
               Cardinality(UnionsCovering(v)) <= 1

(***************************************************************************)
(* Properties of the combinators.                                          *)
(***************************************************************************)
Evaluated == call.kind = "evaluate"

\* the result of evaluating a subtree against the index
Eval(cond) == evaluate(cond, db, sdb, documents_ids)

\* the documents that have a value for a numeric field
DocsWithValue(field_id) ==
    UNION {e.docids : e \in {e \in db : e.fid = field_id /\ e.level = 0}}

\* C4: evaluate is compositional: Or is the union and And the intersection of
\* the results of the two children, Not is the bitmap of all the documents of
\* the index minus the result of its child, so Not of a numeric leaf also
\* returns the documents that have no value for the field.
C4_EvaluateCompositional ==
    Evaluated =>
        /\ call.cond.type = "Or" => ret.bitmap = Eval(call.cond.lhs) \cup Eval(call.cond.rhs)
        /\ call.cond.type = "And" => ret.bitmap = Eval(call.cond.lhs) \cap Eval(call.cond.rhs)
        /\ call.cond.type = "Not" => ret.bitmap = documents_ids \ Eval(call.cond.op)
        /\ (call.cond.type = "Not" /\ call.cond.op.type = "OperatorI64")
              => (documents_ids \ DocsWithValue(call.cond.op.fid)) \subseteq ret.bitmap

\* a Not over a numeric leaf returned a document that has no value for the
\* field on an index where the leaf itself matches documents
C4_Witness ==
    /\ Evaluated /\ call.cond.type = "Not" /\ call.cond.op.type = "OperatorI64"
    /\ Eval(call.cond.op) # {}
    /\ \E d \in ret.bitmap : d \notin DocsWithValue(call.cond.op.fid)

(***************************************************************************)
(* Properties of the builder.                                              *)
(***************************************************************************)
Built == call.kind = "from_str"

\* the comparison leaves of a parsed expression
RECURSIVE LeavesOf(_)
LeavesOf(pair) ==
    CASE pair.rule \in {"prgm", "term", "not"} -> LeavesOf(pair.inner)
      [] pair.rule \in {"or", "and"} -> LeavesOf(pair.lhs) \cup LeavesOf(pair.rhs)
      [] OTHER -> {pair}

InCatalog(leaf) == fields_ids_map[leaf.key] # NoId
IsFaceted(leaf) == InCatalog(leaf) /\ faceted_fields[fields_ids_map[leaf.key]] # NotFaceted
OrdersString(leaf) ==
    /\ IsFaceted(leaf) /\ faceted_fields[fields_ids_map[leaf.key]] = "String"
    /\ leaf.rule \in OrderingRules

\* C5: from_str returns a tree only if every comparison leaf names an
\* attribute of the catalog that is faceted and no ordering operator targets a
\* String facet; otherwise it returns an error and no tree, and the error of
\* the reported leaf is the unknown attribute before the not-faceted
\* attribute, and both before the invalid operator.
C5_BuilderChecksLeaves ==
    Built =>
        /\ ret.result.ok =>
              \A leaf \in LeavesOf(call.expression) :
                  InCatalog(leaf) /\ IsFaceted(leaf) /\ ~OrdersString(leaf)
        /\ ~ret.result.ok =>
              /\ DOMAIN ret.result = {"ok", "kind", "item"}
              /\ ret.result.item \in LeavesOf(call.expression)
              /\ ~InCatalog(ret.result.item) <=> ret.result.kind = "UnknownAttribute"
              /\ (InCatalog(ret.result.item) /\ ~IsFaceted(ret.result.item))
                    <=> ret.result.kind = "NotFaceted"
              /\ OrdersString(ret.result.item) <=> ret.result.kind = "InvalidOperatorOnString"

\* a tree was built from an expression with an equality on a String facet
\* and an ordering operator on a numeric facet
C5_Witness ==
    /\ Built /\ ret.result.ok
    /\ \E l1, l2 \in LeavesOf(call.expression) :
          /\ faceted_fields[fields_ids_map[l1.key]] = "String" /\ l1.rule = "eq"
          /\ faceted_fields[fields_ids_map[l2.key]] \in {"Integer", "Float"} /\ l2.rule \in OrderingRules

====
